---- MODULE Spec2Model ----
(***************************************************************************)
(* A model of community-js: the Community data-access class                *)
(* (src/ts/community.ts), the AuthenticationAgent                          *)
(* (src/ts/authentication-agent.ts), the SQL clause builders               *)
(* (src/ts/util/sql-construction.ts) and the promisified pool query        *)
(* (src/ts/database-accessor.ts), run against a MySQL/InnoDB server        *)
(* through a node-mysql connection pool.                                   *)
(*                                                                         *)
(* Four specifications share the variables:                                *)
(*   Spec      the data-access operations over the users table, callers    *)
(*             interleaving at every await and at every statement of the   *)
(*             updateUsers script;                                         *)
(*   SpecSequential  the same operations, the deletes by descriptor and    *)
(*             checkLogin on stored users, called one after another while  *)
(*             the server's clock runs and crypto.pbkdf2 may fail;         *)
(*   SpecAuth  createLogin / checkLogin of the AuthenticationAgent;        *)
(*   SpecSql   the clause builders and the statement texts built on them.  *)
(***************************************************************************)
EXTENDS Integers, Sequences, FiniteSets, TLC

VARIABLES
    users,        \* committed content of the users table: id -> row
    nextId,       \* the AUTO_INCREMENT counter of users.id
    conns,        \* the MySQL session behind each pooled connection
    poolAll,      \* number of connections the pool has opened so far
    poolFree,     \* the pool's queue of free connections
    calls,        \* per caller: the call in flight
    last,         \* the call the latest step finished, with its outcome
    started,      \* number of calls started so far
    auth,         \* SpecAuth: agent configuration, login material, verdict
    sql,          \* SpecSql: the object given to a builder and the text built
    now           \* the server's clock, CURRENT_TIMESTAMP

vars ==
    <<users, nextId, conns, poolAll, poolFree, calls, last, started, auth,
      sql, now>>

-----------------------------------------------------------------------------
(* Bounds of the model.                                                    *)

\* ids the AUTO_INCREMENT counter may hand out
MaxUsers == 2

\* callers that may have a call in flight at once
NumCallers == 2

\* calls the callers start in one run
MaxCalls == 4

\* connectionLimit of the pool
PoolSize == 2

Callers == 1..NumCallers

ConnIds == 1..PoolSize

Salts == {"c2FsdDE=", "c2FsdDI="}

\* the salt drawn in the data-access specification
DbSalts == {"c2FsdDE="}

\* SQL NULL in a column of a row
NULL == "NULL"

-----------------------------------------------------------------------------
(* AuthenticationAgent (src/ts/authentication-agent.ts).                   *)

\* the configuration the entry point passes to Community.gather
pepper == "%70i$%2#IVbm$vNO30fVZ&XoytPdT*5c"

hashingIterations == 10000

MinPasswordLength == 8

DefaultAgent ==
    [pepper |-> pepper, hashingIterations |-> hashingIterations]

\* passwordConformityFunction of the entry point: password.length >= 8
passwordConformityFunction(password) == Len(password) >= MinPasswordLength

checkPasswordConformity(password) == passwordConformityFunction(password)

\* crypto.pbkdf2(input, salt + pepper, iterations, 128, "SHA256"), base64:
\* a digest determined by, and (as a KDF) taken injective in, its inputs.
createHash(input, salt, iterations, pep) ==
    <<"pbkdf2", input, salt \o pep, iterations>>

\* what a column without a value holds after INSERT IGNORE: '' for VARCHAR
NoHash == <<>>

\* createLogin: undefined (here the record with defined = FALSE) when the
\* conformity check fails, otherwise a random salt, the agent's iteration
\* count and the hash of the password over them.
NoLogin ==
    [defined |-> FALSE, passwordHash |-> NoHash, passwordSalt |-> "",
     passwordIterations |-> 0]

\* createLogin hashing over the salt alone, without the pepper
createLoginUnpeppered(agent, password, randomSalt) ==
    IF ~checkPasswordConformity(password)
    THEN NoLogin
    ELSE [defined |-> TRUE,
          passwordHash |-> createHash(password, randomSalt,
                                      agent.hashingIterations, ""),
          passwordSalt |-> randomSalt,
          passwordIterations |-> agent.hashingIterations]

createLogin(agent, password, randomSalt) ==
    IF ~checkPasswordConformity(password)
    THEN NoLogin
    ELSE [defined |-> TRUE,
          passwordHash |-> createHash(password, randomSalt,
                                      agent.hashingIterations, agent.pepper),
          passwordSalt |-> randomSalt,
          passwordIterations |-> agent.hashingIterations]

checkLogin(agent, user, passwordAttempt) ==
    user.passwordHash = createHash(passwordAttempt, user.passwordSalt,
                                   user.passwordIterations, agent.pepper)

-----------------------------------------------------------------------------
(* The users table (Community.initializeUsersTable) with the additional    *)
(* columns of the entry point: username (NOT NULL UNIQUE) and phone (NULL).*)

EmptyTable == [i \in {} |-> i]

\* A row of users.  createdWith is no column of the table: it is history,
\* the password createUser was called with when it inserted the row.
UserRow(id, username, phone, hash, salt, iterations, modifiedAt, createdAt, createdWith) ==
    [id |-> id, username |-> username, phone |-> phone,
     passwordHash |-> hash, passwordSalt |-> salt,
     passwordIterations |-> iterations, modifiedAt |-> modifiedAt,
     createdAt |-> createdAt, createdWith |-> createdWith]

\* the users side of an outer-join row whose users row is missing
NullRow(id) == UserRow(id, NULL, NULL, NoHash, NULL, 0, NULL, NULL, NULL)

\* `key` = value AND ... as the server evaluates it on one row
Matches(row, obj) == \A k \in DOMAIN obj : row[k] = obj[k]

\* the rows WHERE ... selects
Selected(table, identifyingInfo) ==
    {i \in DOMAIN table : Matches(table[i], identifyingInfo)}

\* id and username have a unique index, the other columns have none
UniqueLookup(identifyingInfo) ==
    DOMAIN identifyingInfo \cap {"id", "username"} # {}

\* the rows a locking read with this WHERE clause locks
Scanned(table, identifyingInfo) ==
    IF UniqueLookup(identifyingInfo) THEN Selected(table, identifyingInfo)
    ELSE DOMAIN table

\* SET `key` = value, ... applied to one row.  modifiedAt is ON UPDATE
\* CURRENT_TIMESTAMP: it takes the time of the statement when the statement
\* changes the value of another column of the row.
SetRow(row, obj) ==
    LET set == [k \in DOMAIN row |-> IF k \in DOMAIN obj THEN obj[k]
                                                          ELSE row[k]]
    IN  IF set = row THEN row ELSE [set EXCEPT !.modifiedAt = now]

\* the UNIQUE index on username
UniqueOk(table) ==
    \A i, j \in DOMAIN table :
        table[i].username = table[j].username => i = j

-----------------------------------------------------------------------------
(* The MySQL session behind a pooled connection.  A session with           *)
(* autocommit = 0 keeps its writes pending (wrows, wdel) and its locks     *)
(* until a COMMIT or a statement that commits implicitly.                  *)

InitConn ==
    [autocommit |-> 1,          \* @@autocommit
     stored |-> -1,             \* @storedAutocommitState, -1 while unset
     wrows |-> EmptyTable,      \* rows written and not yet committed
     wdel |-> {},               \* ids deleted and not yet committed
     lock |-> "none",           \* none, rows, scan or X (see below)
     tempIds |-> {}]            \* ids in the temporary table updatedUserIDs

\* the users table as statements of session c read it: the committed rows
\* overlaid with the session's own pending writes
ViewOf(table, conn) ==
    LET ids == (DOMAIN table \cup DOMAIN conn.wrows) \ conn.wdel
    IN  [i \in ids |-> IF i \in DOMAIN conn.wrows THEN conn.wrows[i]
                                                  ELSE table[i]]

View(c) == ViewOf(users, conns[c])

Written(conn) == DOMAIN conn.wrows \cup conn.wdel

\* the session after a statement turned its view of users into `table`
WithView(conn, table) ==
    [conn EXCEPT
        !.wrows = [i \in {j \in DOMAIN table :
                            j \notin DOMAIN users \/ users[j] # table[j]}
                   |-> table[i]],
        !.wdel = DOMAIN users \ DOMAIN table]

\* COMMIT, explicit or implicit: pending writes become the committed table
Committed(conn) ==
    [conn EXCEPT !.wrows = EmptyTable, !.wdel = {}, !.lock = "none"]

\* ROLLBACK of the session's transaction by the server (deadlock victim)
RolledBack(conn) ==
    [conn EXCEPT !.wrows = EmptyTable, !.wdel = {}, !.lock = "none"]

\* A connection is busy while a caller's updateUsers script runs on it.
Busy(c) == \E p \in Callers : calls[p].conn = c

\* Locks of a session (InnoDB, REPEATABLE READ), held until it commits:
\*   rows  the INSERT ... SELECT of the script found its rows through a unique
\*         index (id, username) and holds shared locks on the rows it read,
\*         which are the ids in updatedUserIDs;
\*   gap   the same lookup found no row and locked the gap where the key
\*         would be, which keeps other sessions from inserting (any row,
\*         in this model);
\*   scan  the INSERT ... SELECT scanned the table (no index on the column):
\*         shared locks on every row and on the gaps between them;
\*   X     DELETE FROM users: exclusive locks on every row and gap;
\* and exclusive locks on every row the session wrote (Written).
SharedOn(conn, ids) ==
    \/ conn.lock \in {"scan", "X"}
    \/ conn.lock = "rows" /\ conn.tempIds \cap ids # {}

\* a session with a pending change to the unique index entry of one of these
\* usernames: it inserted a row of that name, gave a row that name, or took
\* the name from a committed row by renaming or deleting it
HoldsName(conn, names) ==
    \/ \E i \in DOMAIN conn.wrows :
          /\ conn.wrows[i].username \in names
          /\ i \in DOMAIN users => users[i].username # conn.wrows[i].username
    \/ \E i \in Written(conn) \cap DOMAIN users :
          /\ users[i].username \in names
          /\ i \in DOMAIN conn.wrows =>
                 conn.wrows[i].username # users[i].username

\* the rows a locking read of session c with this WHERE clause meets: a
\* locking read reads the newest version of a record, so next to the rows of
\* its own view it meets the rows other sessions wrote and have not
\* committed, and waits for their locks
ScannedBy(c, identifyingInfo) ==
    Scanned(View(c), identifyingInfo) \cup
        {i \in UNION {DOMAIN conns[d].wrows : d \in ConnIds \ {c}} :
            \/ ~UniqueLookup(identifyingInfo)
            \/ \E d \in ConnIds \ {c} :
                  /\ i \in DOMAIN conns[d].wrows
                  /\ Matches(conns[d].wrows[i], identifyingInfo)}

\* the other sessions whose locks make a statement of session c wait:
\* a locking read of the rows `ids`
ReadBlockers(c, ids) ==
    {d \in ConnIds \ {c} :
        conns[d].lock = "X" \/ Written(conns[d]) \cap ids # {}}

\* a write of the rows `ids` that sets their username to one of `names`
WriteBlockers(c, ids, names) ==
    {d \in ConnIds \ {c} :
        \/ SharedOn(conns[d], ids)
        \/ Written(conns[d]) \cap ids # {}
        \/ HoldsName(conns[d], names)}

\* INSERT IGNORE of a row with this username: the duplicate check reads the
\* index entry of the name, and only a row that is inserted needs the gap
InsertBlockers(c, username, inserts) ==
    {d \in ConnIds \ {c} :
        \/ conns[d].lock = "X"
        \/ inserts /\ conns[d].lock \in {"gap", "scan"}
        \/ HoldsName(conns[d], {username})}

\* DELETE FROM users
DeleteBlockers(c) ==
    {d \in ConnIds \ {c} :
        \/ conns[d].lock \in {"scan", "X"}
        \/ conns[d].lock = "rows" /\ conns[d].tempIds # {}
        \/ Written(conns[d]) # {}}

\* A wait on a lock of a session left in the pool with its transaction open
\* ends in ER_LOCK_WAIT_TIMEOUT; a wait on a running script just waits.
TimesOut(blockers) == \E d \in blockers : ~Busy(d)

-----------------------------------------------------------------------------
(* The node-mysql pool behind DatabaseAccessor.query: a free connection is *)
(* taken from the head of the queue, a new one is opened while the limit   *)
(* allows, and a released connection goes to the back of the queue.        *)

PoolCanAcquire == Len(poolFree) > 0 \/ poolAll < PoolSize

PoolAcquired == IF Len(poolFree) > 0 THEN Head(poolFree) ELSE poolAll + 1

PoolFreeAfterAcquire == IF Len(poolFree) > 0 THEN Tail(poolFree) ELSE poolFree

PoolAllAfterAcquire == IF Len(poolFree) > 0 THEN poolAll ELSE poolAll + 1

-----------------------------------------------------------------------------
(* Inputs of the data-access operations.                                   *)

EmptyObject == [k \in {} |-> k]

\* UserDescriptor values: at most one key; the empty object is what the
\* SemiPartial type still lets through (src/ts/util/semipartial.ts)
UserDescriptors ==
    {EmptyObject, [id |-> 1], [id |-> MaxUsers + 1], [username |-> "ann"],
     [phone |-> "2"]}

\* SemiPartial<CustomUser> values for updateUsers
UpdatedInfos == {EmptyObject, [username |-> "bob"], [phone |-> "3"]}

\* the (identifyingInfo, updatedInfo) arguments of the updateUsers calls
UpdateCalls ==
    {call \in UserDescriptors \X UpdatedInfos :
        call \in {<<EmptyObject, [phone |-> "3"]>>,
                  <<[phone |-> "2"], EmptyObject>>,
                  <<[phone |-> "2"], [phone |-> "3"]>>,
                  <<[username |-> "ann"], [username |-> "bob"]>>,
                  <<[id |-> 1], [phone |-> "3"]>>,
                  <<[id |-> MaxUsers + 1], [username |-> "bob"]>>}}

\* CustomUser values for createUser: username is required, phone optional
UserInfos == {[username |-> "ann", phone |-> "2"], [username |-> "bob"]}

\* a passwordHash of the caller's choosing, no output of the agent
ForgedHash == <<"chosen by the caller">>

\* a userInfo that carries a key named as a credential column
ForgedInfos == {[username |-> "bob", passwordHash |-> ForgedHash]}

\* one password that meets the conformity function and one that does not
CreatePasswords == {"correct horse", "hunter2"}

-----------------------------------------------------------------------------
(* Calls.  A caller's record holds its call in flight; when the call       *)
(* resolves or rejects, that step leaves the record in `last`, where it    *)
(* stays until the next step.  pre, matched, expected, left, dup,           *)
(* sameName, applied and driverError are history taken while the call ran. *)
(* rows is the row or rows a call resolved to and returned what a delete   *)
(* resolved to, each the empty set for undefined; from tells which         *)
(* statement's result updateUsers returned and sent is the object whose    *)
(* keys and values createUser wrote into its INSERT; cryptoError tells     *)
(* that crypto.pbkdf2 failed during the call.                              *)

InitCall ==
    [op |-> "none", pc |-> "idle", conn |-> 0,
     ident |-> EmptyObject, upd |-> EmptyObject,
     password |-> "", userInfo |-> EmptyObject, insertId |-> 0,
     outcome |-> "none", error |-> "", rows |-> {}, count |-> 0,
     pre |-> EmptyTable, matched |-> {}, expected |-> {}, left |-> {},
     dup |-> FALSE, sameName |-> 0, applied |-> FALSE, driverError |-> "",
     returned |-> {}, from |-> [index |-> -1, kind |-> "none"],
     sent |-> EmptyObject, cryptoError |-> FALSE]

Resolved(call) == [call EXCEPT !.pc = "idle", !.conn = 0,
                               !.pre = EmptyTable, !.outcome = "resolved"]

Rejected(call, error) ==
    [call EXCEPT !.pc = "idle", !.conn = 0, !.pre = EmptyTable,
                 !.outcome = "rejected", !.error = error, !.rows = {}]

\* the callback of DatabaseAccessor.query resolving although the driver
\* handed it an error
QueryErrorSwallowed(call, error) ==
    Resolved([call EXCEPT !.driverError = error])

\* the callback of DatabaseAccessor.query when the driver hands it an error:
\* if (error !== null) reject(error).  No operation catches the rejection,
\* so it is the outcome of the call that awaits the query.
QueryError(call, error) ==
    Rejected([call EXCEPT !.driverError = error], error)

\* the caller starts a call
Start(p) ==
    /\ calls[p].pc = "idle"
    /\ started < MaxCalls
    /\ started' = started + 1

\* the caller's call goes on as `call`
Continue(p, call) ==
    /\ calls' = [calls EXCEPT ![p] = call]
    /\ last' = InitCall

\* the caller's call ends as `call`
Finish(p, call) ==
    /\ calls' = [calls EXCEPT ![p] = InitCall]
    /\ last' = call

\* ids whose row differs between two contents of the users table
Differing(t1, t2) ==
    {i \in DOMAIN t1 \cup DOMAIN t2 :
        \/ i \notin DOMAIN t1
        \/ i \notin DOMAIN t2
        \/ t1[i] # t2[i]}

\* a statement of session c turns its view of users into `table`: with
\* autocommit on the write is committed at once, otherwise it stays pending
UsersAfterWrite(c, table) ==
    IF conns[c].autocommit = 1 THEN table ELSE users

ConnAfterWrite(c, table, lock) ==
    IF conns[c].autocommit = 1
    THEN conns[c]
    ELSE [WithView(conns[c], table) EXCEPT !.lock = lock]

-----------------------------------------------------------------------------
(* Community.getUser: SELECT * FROM users WHERE ... LIMIT 1.               *)

\* the result sets the server may answer with: LIMIT 1 without ORDER BY
\* yields any one of the matching rows
SelectLimit1(table, userInfo) ==
    LET hits == Selected(table, userInfo)
    IN  IF hits = {} THEN {<<>>} ELSE {<<table[i]>> : i \in hits}

\* getUser testing results.length > 1
getUserReturnOffByOne(results) ==
    IF Len(results) > 1 THEN {results[1]} ELSE {}

\* results.length > 0 ? results[0] : undefined; undefined is the empty set
getUserReturn(results) ==
    IF Len(results) > 0 THEN {results[1]} ELSE {}

\* the whole of getUser on session c
getUser(call, c, userInfo, results) ==
    IF DOMAIN userInfo = {}
    THEN QueryError(call, "ER_PARSE_ERROR")     \* the text is WHERE LIMIT 1
    ELSE Resolved([call EXCEPT
            !.matched = Selected(View(c), userInfo),
            !.rows = getUserReturn(results)])

GetUser(p, userInfo) ==
    /\ Start(p)
    /\ PoolCanAcquire
    /\ LET c == PoolAcquired
       IN  /\ \E results \in SelectLimit1(View(c), userInfo) :
                 Finish(p, getUser([InitCall EXCEPT !.op = "getUser",
                                                    !.ident = userInfo],
                                   c, userInfo, results))
           /\ poolFree' = Append(PoolFreeAfterAcquire, c)
           /\ poolAll' = PoolAllAfterAcquire
    /\ UNCHANGED <<users, nextId, conns, auth, sql, now>>

\* the errors the driver may report for a plain SELECT: the query is
\* interrupted or exceeds its execution time
ReadErrors == {"ER_QUERY_INTERRUPTED"}

\* Community.getAllUsers: SELECT * FROM users, then result.results
GetAllUsers(p) ==
    /\ Start(p)
    /\ PoolCanAcquire
    /\ LET c == PoolAcquired
           call == [InitCall EXCEPT !.op = "getAllUsers"]
       IN  /\ \/ Finish(p, Resolved([call EXCEPT
                      !.matched = DOMAIN View(c),
                      !.rows = {View(c)[i] : i \in DOMAIN View(c)}]))
              \/ \E error \in ReadErrors : Finish(p, QueryError(call, error))
           /\ poolFree' = Append(PoolFreeAfterAcquire, c)
           /\ poolAll' = PoolAllAfterAcquire
    /\ UNCHANGED <<users, nextId, conns, auth, sql, now>>

-----------------------------------------------------------------------------
(* Community.createUser: createLogin, INSERT IGNORE ... SET, then getUser  *)
(* by insertId as a second query.                                          *)

\* { ...userInfo, ...passwordInfo }: spreading undefined adds no key
FullUser(userInfo, passwordInfo) ==
    IF passwordInfo.defined
    THEN [passwordHash |-> passwordInfo.passwordHash,
          passwordSalt |-> passwordInfo.passwordSalt,
          passwordIterations |-> passwordInfo.passwordIterations] @@ userInfo
    ELSE userInfo

\* the row INSERT IGNORE stores: a NOT NULL column without a value gets its
\* implicit default ('' or 0) under IGNORE, a nullable one gets NULL, and
\* modifiedAt and createdAt get their DEFAULT CURRENT_TIMESTAMP, one value
\* for the statement
InsertedRow(id, fullUser, password) ==
    LET val(k, default) == IF k \in DOMAIN fullUser THEN fullUser[k]
                                                  ELSE default
    IN  UserRow(id, val("username", ""), val("phone", NULL),
                val("passwordHash", NoHash), val("passwordSalt", ""),
                val("passwordIterations", 0), now, now, password)

\* an INSERT IGNORE that also skips a row lacking a NOT NULL column
InsertIgnoreSkipsMissing(table, id, fullUser, password) ==
    LET row == InsertedRow(id, fullUser, password)
        after == (id :> row) @@ table
    IN  IF UniqueOk(after) /\ "passwordHash" \in DOMAIN fullUser
        THEN [affectedRows |-> 1, insertId |-> id, table |-> after]
        ELSE [affectedRows |-> 0, insertId |-> 0, table |-> table]

\* the OkPacket of INSERT IGNORE and the table after it: a row that would
\* break the UNIQUE index is skipped with affectedRows = 0
InsertIgnore(table, id, fullUser, password) ==
    LET row == InsertedRow(id, fullUser, password)
        after == (id :> row) @@ table
    IN  IF UniqueOk(after)
        THEN [affectedRows |-> 1, insertId |-> id, table |-> after]
        ELSE [affectedRows |-> 0, insertId |-> 0, table |-> table]

\* a row of this username is in the users table, as committed and as
\* session c reads it
Taken(c, username) ==
    /\ \E i \in DOMAIN users : users[i].username = username
    /\ \E i \in DOMAIN View(c) : View(c)[i].username = username

CreateUserInsert(p, password, userInfo, randomSalt) ==
    /\ Start(p)
    /\ PoolCanAcquire
    /\ nextId <= MaxUsers
    /\ LET c == PoolAcquired
           passwordInfo == createLogin(auth.agent, password, randomSalt)
           fullUser == FullUser(userInfo, passwordInfo)
           ok == InsertIgnore(View(c), nextId, fullUser, password)
           blockers == InsertBlockers(c, InsertedRow(0, fullUser, "").username,
                                      ok.affectedRows = 1)
           call == [InitCall EXCEPT !.op = "createUser",
                                    !.password = password,
                                    !.userInfo = userInfo,
                                    !.sent = fullUser,
                                    !.dup = Taken(c, userInfo.username)]
       IN  /\ blockers # {} => TimesOut(blockers)
           /\ IF blockers # {}
              THEN /\ Finish(p, QueryError(call, "ER_LOCK_WAIT_TIMEOUT"))
                   /\ UNCHANGED <<users, conns, nextId, now>>
              ELSE /\ users' = UsersAfterWrite(c, ok.table)
                   /\ conns' = [conns EXCEPT ![c] =
                          ConnAfterWrite(c, ok.table, conns[c].lock)]
                   /\ nextId' = nextId + ok.affectedRows
                   /\ LET done == [call EXCEPT
                              !.left = Differing(View(c), ok.table),
                              !.sameName = Cardinality(
                                  {i \in DOMAIN ok.table :
                                      ok.table[i].username = userInfo.username})]
                      IN IF ok.affectedRows = 1
                         THEN Continue(p, [done EXCEPT
                                  !.pc = "create_refetch",
                                  !.insertId = ok.insertId])
                         ELSE Finish(p, Rejected(done, "USER_ALREADY_EXISTS"))
           /\ poolFree' = Append(PoolFreeAfterAcquire, c)
           /\ poolAll' = PoolAllAfterAcquire
    /\ UNCHANGED <<auth, sql, now>>

\* return this.getUser({ id: result.results.insertId })
CreateUserRefetch(p) ==
    /\ calls[p].pc = "create_refetch"
    /\ PoolCanAcquire
    /\ LET c == PoolAcquired
           userInfo == [id |-> calls[p].insertId]
       IN  /\ \E results \in SelectLimit1(View(c), userInfo) :
                 Finish(p, Resolved([calls[p] EXCEPT
                               !.rows = getUserReturn(results)]))
           /\ poolFree' = Append(PoolFreeAfterAcquire, c)
           /\ poolAll' = PoolAllAfterAcquire
    /\ UNCHANGED <<users, nextId, conns, started, auth, sql, now>>

-----------------------------------------------------------------------------
(* Community.deleteAllUsers: DELETE FROM users, then changedRows ?? 0.     *)

\* the OkPacket of a DELETE: affectedRows counts the rows deleted,
\* changedRows is set by UPDATE statements only
DeleteOk(table) ==
    [affectedRows |-> Cardinality(DOMAIN table), changedRows |-> 0]

DeleteAllUsers(p) ==
    /\ Start(p)
    /\ PoolCanAcquire
    /\ LET c == PoolAcquired
           blockers == DeleteBlockers(c)
           call == [InitCall EXCEPT !.op = "deleteAllUsers"]
       IN  /\ blockers # {} => TimesOut(blockers)
           /\ IF blockers # {}
              THEN /\ Finish(p, QueryError(call, "ER_LOCK_WAIT_TIMEOUT"))
                   /\ UNCHANGED <<users, conns, now>>
              ELSE /\ users' = UsersAfterWrite(c, EmptyTable)
                   /\ conns' = [conns EXCEPT ![c] =
                          ConnAfterWrite(c, EmptyTable, "X")]
                   /\ Finish(p, Resolved([call EXCEPT
                          !.matched = DOMAIN View(c),
                          !.count = DeleteOk(View(c)).changedRows]))
           /\ poolFree' = Append(PoolFreeAfterAcquire, c)
           /\ poolAll' = PoolAllAfterAcquire
    /\ UNCHANGED <<nextId, auth, sql, now>>

-----------------------------------------------------------------------------
(* Community.deleteUser and Community.deleteUsers: return undefined as     *)
(* any.  Neither sends a statement; matched is what the descriptor selects *)
(* in the table when the call is made.                                     *)

DeleteUser(p, userInfo) ==
    /\ Start(p)
    /\ Finish(p, Resolved([InitCall EXCEPT
           !.op = "deleteUser",
           !.ident = userInfo,
           !.matched = Selected(users, userInfo),
           !.returned = {}]))
    /\ UNCHANGED <<users, nextId, conns, poolAll, poolFree, auth, sql, now>>

DeleteUsers(p, userInfo) ==
    /\ Start(p)
    /\ Finish(p, Resolved([InitCall EXCEPT
           !.op = "deleteUsers",
           !.ident = userInfo,
           !.matched = Selected(users, userInfo),
           !.returned = {}]))
    /\ UNCHANGED <<users, nextId, conns, poolAll, poolFree, auth, sql, now>>

-----------------------------------------------------------------------------
(* Community.updateUsers: one multi-statement script on one connection.    *)
(* The server runs the statements in order and stops at the first that     *)
(* fails; the driver then reports that error and the pool takes the        *)
(* connection back as the script left it.                                  *)

\* [0] SELECT @@autocommit INTO @storedAutocommitState
StmtStoreAutocommit(conn) == [conn EXCEPT !.stored = conn.autocommit]

\* [1], [10] SET autocommit = ...
StmtSetAutocommit(conn, value) == [conn EXCEPT !.autocommit = value]

\* [3] DROP TABLE IF EXISTS updatedUserIDs
StmtDropTemp(conn) == [conn EXCEPT !.tempIds = {}]

\* [4] CREATE TEMPORARY TABLE IF NOT EXISTS updatedUserIDs(id INT): a table
\* that exists keeps its rows, a new one is empty
StmtCreateTemp(conn) == conn

\* [5] TRUNCATE TABLE updatedUserIDs
StmtTruncateTemp(conn) == [conn EXCEPT !.tempIds = {}]

\* statement [6] reading users without taking a lock (a consistent read)
StmtMaterializeUnlocked(conn, table, identifyingInfo) ==
    [conn EXCEPT
        !.tempIds = conn.tempIds \cup Selected(table, identifyingInfo)]

\* [6] INSERT INTO updatedUserIDs SELECT id FROM users WHERE ...: under
\* REPEATABLE READ, the server's default, the SELECT part sets shared
\* next-key locks on what it reads from users
StmtMaterialize(conn, table, identifyingInfo) ==
    [conn EXCEPT
        !.tempIds = conn.tempIds \cup Selected(table, identifyingInfo),
        !.lock = IF ~UniqueLookup(identifyingInfo) THEN "scan"
                 ELSE IF Selected(table, identifyingInfo) = {} THEN "gap"
                 ELSE "rows"]

\* an UPDATE without the join: every row of users is set
UpdateEveryRow(table, tempIds, updatedInfo) ==
    [i \in DOMAIN table |-> SetRow(table[i], updatedInfo)]

\* [7] UPDATE users RIGHT OUTER JOIN updatedUserIDs ON users.id =
\* updatedUserIDs.id SET ...: the users table after it
UpdateJoined(table, tempIds, updatedInfo) ==
    [i \in DOMAIN table |-> IF i \in tempIds THEN SetRow(table[i], updatedInfo)
                                             ELSE table[i]]

\* a read-back without the join: SELECT * FROM users
ReadBackAll(table, tempIds) ==
    {table[i] : i \in DOMAIN table}

\* [8] SELECT * FROM users RIGHT OUTER JOIN updatedUserIDs ON ...: one row per
\* id of the working set, with NULL columns where users has no such row
ReadBack(table, tempIds) ==
    {IF i \in DOMAIN table THEN table[i] ELSE NullRow(i) : i \in tempIds}

\* a script that begins without statements [3] to [5]: updatedUserIDs is
\* used as the session has it
ScriptHeadKeepsTemp(conn) ==
    Committed(StmtSetAutocommit(StmtStoreAutocommit(conn), 0))

\* statements [0] to [5] of the script: START TRANSACTION [2], DROP TABLE and
\* TRUNCATE TABLE commit whatever transaction the session still had open
ScriptHead(conn) ==
    StmtTruncateTemp(StmtCreateTemp(StmtDropTemp(
        Committed(StmtSetAutocommit(StmtStoreAutocommit(conn), 0)))))

\* [9] COMMIT and [10] SET autocommit = @storedAutocommitState
ScriptTail(conn) == StmtSetAutocommit(Committed(conn), conn.stored)

UpdBegin(p, identifyingInfo, updatedInfo) ==
    /\ Start(p)
    /\ PoolCanAcquire
    /\ LET c == PoolAcquired
       IN  /\ users' = View(c)
           /\ conns' = [conns EXCEPT ![c] = ScriptHead(conns[c])]
           /\ Continue(p, [InitCall EXCEPT !.op = "updateUsers",
                                            !.pc = "upd_materialize",
                                            !.conn = c,
                                            !.ident = identifyingInfo,
                                            !.upd = updatedInfo])
    /\ poolFree' = PoolFreeAfterAcquire
    /\ poolAll' = PoolAllAfterAcquire
    /\ UNCHANGED <<nextId, auth, sql, now>>

\* the script stops with `error` on session c, whose state is then `conn`
UpdReject(p, conn, error) ==
    LET c == calls[p].conn
        left == IF calls[p].pc = "upd_materialize" THEN {}
                ELSE Differing(calls[p].pre, ViewOf(users, conn))
    IN  /\ conns' = [conns EXCEPT ![c] = conn]
        /\ Finish(p, QueryError([calls[p] EXCEPT !.left = left], error))
        /\ poolFree' = Append(poolFree, c)
        /\ UNCHANGED <<users, nextId, poolAll, started, auth, sql, now>>

UpdMaterialize(p) ==
    /\ calls[p].pc = "upd_materialize"
    /\ LET c == calls[p].conn
           blockers == ReadBlockers(c, ScannedBy(c, calls[p].ident))
       IN  IF DOMAIN calls[p].ident = {}
           THEN UpdReject(p, conns[c], "ER_PARSE_ERROR")
           ELSE /\ blockers # {} => TimesOut(blockers)
                /\ IF blockers # {}
                   THEN UpdReject(p, conns[c], "ER_LOCK_WAIT_TIMEOUT")
                   ELSE /\ conns' = [conns EXCEPT ![c] =
                               StmtMaterialize(conns[c], View(c),
                                               calls[p].ident)]
                        /\ Continue(p, [calls[p] EXCEPT
                               !.pc = "upd_update",
                               !.pre = View(c),
                               !.matched = Selected(View(c), calls[p].ident)])
                        /\ UNCHANGED <<users, nextId, poolAll, poolFree,
                                       started, auth, sql, now>>

\* the rows the UPDATE of session c is about to lock and write
UpdateTargets(c) == conns[c].tempIds \cap DOMAIN View(c)

UpdateNames(updatedInfo) ==
    IF "username" \in DOMAIN updatedInfo THEN {updatedInfo.username} ELSE {}

UpdateBlockers(c, updatedInfo) ==
    IF UpdateTargets(c) = {} THEN {}
    ELSE WriteBlockers(c, UpdateTargets(c), UpdateNames(updatedInfo))

\* two scripts that each hold the scan's shared locks and each wait for the
\* other's rows: the server rolls one of them back with ER_LOCK_DEADLOCK
Deadlocked(c, blockers) ==
    \E d \in blockers : \E q \in Callers :
        /\ calls[q].conn = d
        /\ calls[q].pc = "upd_update"
        /\ c \in UpdateBlockers(d, calls[q].upd)

UpdUpdate(p) ==
    /\ calls[p].pc = "upd_update"
    /\ LET c == calls[p].conn
           updatedInfo == calls[p].upd
           blockers == UpdateBlockers(c, updatedInfo)
           after == UpdateJoined(View(c), conns[c].tempIds, updatedInfo)
           matched == calls[p].matched \cap DOMAIN View(c)
       IN  IF DOMAIN updatedInfo = {}
           THEN UpdReject(p, conns[c], "ER_PARSE_ERROR")
           ELSE IF blockers # {}
           THEN /\ TimesOut(blockers) \/ Deadlocked(c, blockers)
                /\ IF TimesOut(blockers)
                   THEN UpdReject(p, conns[c], "ER_LOCK_WAIT_TIMEOUT")
                   ELSE UpdReject(p, RolledBack(conns[c]), "ER_LOCK_DEADLOCK")
           ELSE IF ~UniqueOk(after)
           THEN UpdReject(p, conns[c], "ER_DUP_ENTRY")
           ELSE /\ conns' = [conns EXCEPT ![c] = WithView(conns[c], after)]
                /\ Continue(p, [calls[p] EXCEPT
                       !.pc = "upd_readback",
                       !.applied = TRUE,
                       !.expected =
                           {SetRow(View(c)[i], updatedInfo) : i \in matched}])
                /\ UNCHANGED <<users, nextId, poolAll, poolFree, started,
                               auth, sql, now>>

UpdReadBack(p) ==
    /\ calls[p].pc = "upd_readback"
    /\ LET c == calls[p].conn
       IN  Continue(p, [calls[p] EXCEPT
               !.pc = "upd_commit",
               !.rows = ReadBack(View(c), conns[c].tempIds)])
    /\ UNCHANGED <<users, nextId, conns, poolAll, poolFree, started,
                   auth, sql, now>>

\* the driver reports an error for the read-back SELECT (the query is
\* interrupted or exceeds its execution time); the session stays as it is
UpdReadBackFail(p) ==
    /\ calls[p].pc = "upd_readback"
    /\ UpdReject(p, conns[calls[p].conn], "ER_QUERY_INTERRUPTED")

\* result.results of the script: the driver answers a multi-statement
\* query with one entry per statement, indexed from 0 in the order of the
\* text.  The read-back SELECT [8] is the one statement that yields a row
\* set (SELECT ... INTO [0] yields none); every other entry is an OkPacket.
ScriptResults(call) ==
    [i \in 0..10 |->
        IF i = 8 THEN [index |-> i, kind |-> "rows", rows |-> call.rows]
        ELSE [index |-> i, kind |-> "OkPacket", rows |-> {}]]

\* a return of the entry of the UPDATE statement
updateUsersReturnOfUpdate(results) == results[7]

\* return result.results[8]
updateUsersReturn(results) == results[8]

\* statements [9] and [10], then the return
UpdCommit(p) ==
    /\ calls[p].pc = "upd_commit"
    /\ LET c == calls[p].conn
           returned == updateUsersReturn(ScriptResults(calls[p]))
       IN  /\ users' = View(c)
           /\ conns' = [conns EXCEPT ![c] = ScriptTail(conns[c])]
           /\ Finish(p, Resolved([calls[p] EXCEPT
                  !.rows = returned.rows,
                  !.from = [index |-> returned.index,
                            kind |-> returned.kind]]))
           /\ poolFree' = Append(poolFree, c)
    /\ UNCHANGED <<nextId, poolAll, started, auth, sql, now>>

-----------------------------------------------------------------------------
(* The data-access specification.                                          *)

InitAuth == [agent |-> DefaultAgent, material |-> NoLogin, password |-> "",
             attempt |-> "", verdict |-> "none"]

InitSql ==
    [kind |-> "none", obj |-> <<>>, upd |-> <<>>, keyword |-> TRUE,
     outcome |-> "none", text |-> <<>>]

Init ==
    /\ users = EmptyTable
    /\ nextId = 1
    /\ conns = [c \in ConnIds |-> InitConn]
    /\ poolAll = 0
    /\ poolFree = <<>>
    /\ calls = [p \in Callers |-> InitCall]
    /\ last = InitCall
    /\ started = 0
    /\ auth = InitAuth
    /\ now = 0
    /\ sql = InitSql

Next ==
    \E p \in Callers :
        \/ \E userInfo \in UserDescriptors : GetUser(p, userInfo)
        \/ GetAllUsers(p)
        \/ \E password \in CreatePasswords, userInfo \in UserInfos,
              randomSalt \in DbSalts :
                CreateUserInsert(p, password, userInfo, randomSalt)
        \/ CreateUserRefetch(p)
        \/ DeleteAllUsers(p)
        \/ \E call \in UpdateCalls : UpdBegin(p, call[1], call[2])
        \/ UpdMaterialize(p)
        \/ UpdUpdate(p)
        \/ UpdReadBack(p)
        \/ UpdReadBackFail(p)
        \/ UpdCommit(p)

Spec == Init /\ [][Next]_vars

-----------------------------------------------------------------------------
(* The sequential specification: one caller makes one call after another,  *)
(* the deletes by descriptor and checkLogin among them, while the server's *)
(* clock runs and the hashing primitive may fail.                          *)

\* seconds the clock may advance
MaxTime == 2

\* the error createHash rejects with: new Error("An error occurred while
\* attempting to hash a string.")
HashingFailure == "An error occurred while attempting to hash a string."

\* a createHash that resolves to the empty string when crypto.pbkdf2 fails
createHashSettledEmpty(input, salt, iterations, pep, cryptoError) ==
    IF cryptoError
    THEN [state |-> "resolved", error |-> "", hash |-> NoHash]
    ELSE [state |-> "resolved", error |-> "",
          hash |-> createHash(input, salt, iterations, pep)]

\* the Promise createHash returns, settled: crypto.pbkdf2 hands its callback
\* an error or the derived key, and an exception it throws inside the
\* executor rejects the Promise as well
createHashSettled(input, salt, iterations, pep, cryptoError) ==
    IF cryptoError
    THEN [state |-> "rejected", error |-> HashingFailure, hash |-> NoHash]
    ELSE [state |-> "resolved", error |-> "",
          hash |-> createHash(input, salt, iterations, pep)]

\* the Promise of createLogin, settled: no hash is made for a password that
\* fails the conformity check, and the await of createHash throws what
\* createHash rejects with
createLoginSettled(agent, password, randomSalt, cryptoError) ==
    LET hashed == createHashSettled(password, randomSalt,
                                    agent.hashingIterations, agent.pepper,
                                    cryptoError)
    IN  IF ~checkPasswordConformity(password)
        THEN [state |-> "resolved", error |-> "", login |-> NoLogin]
        ELSE IF hashed.state = "rejected"
        THEN [state |-> "rejected", error |-> hashed.error, login |-> NoLogin]
        ELSE [state |-> "resolved", error |-> "",
              login |-> createLogin(agent, password, randomSalt)]

\* the Promise of checkLogin, settled
checkLoginSettled(agent, user, passwordAttempt, cryptoError) ==
    LET hashed == createHashSettled(passwordAttempt, user.passwordSalt,
                                    user.passwordIterations, agent.pepper,
                                    cryptoError)
    IN  IF hashed.state = "rejected"
        THEN [state |-> "rejected", error |-> hashed.error, value |-> {}]
        ELSE [state |-> "resolved", error |-> "",
              value |-> {user.passwordHash = hashed.hash}]

\* createUser when the await of createLogin throws: the call rejects at its
\* first line and sends no statement
CreateUserHashFails(p, password, userInfo, randomSalt) ==
    /\ createLoginSettled(auth.agent, password, randomSalt,
                          TRUE).state = "rejected"
    /\ Start(p)
    /\ Finish(p, Rejected([InitCall EXCEPT !.op = "createUser",
                                           !.password = password,
                                           !.userInfo = userInfo,
                                           !.cryptoError = TRUE],
                          createLoginSettled(auth.agent, password,
                                             randomSalt, TRUE).error))
    /\ UNCHANGED <<users, nextId, conns, poolAll, poolFree, auth, sql, now>>

\* authenticationAgent.checkLogin(user, passwordAttempt) on a user read from
\* the users table
CheckLogin(p, passwordAttempt) ==
    /\ Start(p)
    /\ \E i \in DOMAIN users, cryptoError \in BOOLEAN :
          LET settled == checkLoginSettled(auth.agent, users[i],
                                           passwordAttempt, cryptoError)
              call == [InitCall EXCEPT !.op = "checkLogin",
                                       !.password = passwordAttempt,
                                       !.rows = {users[i]},
                                       !.cryptoError = cryptoError]
          IN  IF settled.state = "rejected"
              THEN Finish(p, [Rejected(call, settled.error) EXCEPT
                                  !.rows = {users[i]}])
              ELSE Finish(p, Resolved([call EXCEPT
                                  !.returned = settled.value]))
    /\ UNCHANGED <<users, nextId, conns, poolAll, poolFree, auth, sql, now>>

\* the one caller
Caller == CHOOSE p \in Callers : \A q \in Callers : p <= q

\* time passes between two statements
Tick ==
    /\ now < MaxTime
    /\ now' = now + 1
    /\ UNCHANGED <<users, nextId, conns, poolAll, poolFree, calls, last,
                   started, auth, sql>>

NextSequential ==
    \/ Tick
    \/ \E userInfo \in UserDescriptors : GetUser(Caller, userInfo)
    \/ GetAllUsers(Caller)
    \/ \E password \in CreatePasswords,
          userInfo \in UserInfos \cup ForgedInfos, randomSalt \in DbSalts :
            CreateUserInsert(Caller, password, userInfo, randomSalt)
    \/ CreateUserRefetch(Caller)
    \/ \E password \in CreatePasswords, userInfo \in UserInfos,
          randomSalt \in DbSalts :
            CreateUserHashFails(Caller, password, userInfo, randomSalt)
    \/ \E passwordAttempt \in CreatePasswords :
          CheckLogin(Caller, passwordAttempt)
    \/ \E userInfo \in UserDescriptors : DeleteUser(Caller, userInfo)
    \/ \E userInfo \in UserDescriptors : DeleteUsers(Caller, userInfo)
    \/ DeleteAllUsers(Caller)
    \/ \E call \in UpdateCalls : UpdBegin(Caller, call[1], call[2])
    \/ UpdMaterialize(Caller)
    \/ UpdUpdate(Caller)
    \/ UpdReadBack(Caller)
    \/ UpdReadBackFail(Caller)
    \/ UpdCommit(Caller)

SpecSequential == Init /\ [][NextSequential]_vars

-----------------------------------------------------------------------------
(* The AuthenticationAgent on its own: an agent of some configuration      *)
(* creates login material for a password, the material is folded into a   *)
(* user, and login attempts are checked against that user.                 *)

Peppers == {pepper, ""}

Iterations == {hashingIterations, 1}

AuthPasswords == {"correct horse", "correct horsE", "hunter2", "hunter22"}

Attempts == AuthPasswords \cup {""}

Agents ==
    {[pepper |-> pep, hashingIterations |-> n] :
        pep \in Peppers, n \in Iterations}

\* the user { ...userInfo, ...passwordInfo } that carries the material
UserWith(passwordInfo) ==
    UserRow(1, "ann", NULL, passwordInfo.passwordHash,
            passwordInfo.passwordSalt, passwordInfo.passwordIterations, 0, 0,
            "")

AuthCreateLogin(password, randomSalt) ==
    /\ auth.verdict = "none"
    /\ ~auth.material.defined
    /\ auth.password = ""
    /\ auth' = [auth EXCEPT
           !.material = createLogin(auth.agent, password, randomSalt),
           !.password = password]
    /\ UNCHANGED <<users, nextId, conns, poolAll, poolFree, calls, last,
                   started, sql, now>>

AuthCheckLogin(passwordAttempt) ==
    /\ auth.material.defined
    /\ auth' = [auth EXCEPT
           !.attempt = passwordAttempt,
           !.verdict = IF checkLogin(auth.agent, UserWith(auth.material),
                                     passwordAttempt)
                       THEN "true" ELSE "false"]
    /\ UNCHANGED <<users, nextId, conns, poolAll, poolFree, calls, last,
                   started, sql, now>>

InitAgent ==
    /\ users = EmptyTable
    /\ nextId = 1
    /\ conns = [c \in ConnIds |-> InitConn]
    /\ poolAll = 0
    /\ poolFree = <<>>
    /\ calls = [p \in Callers |-> InitCall]
    /\ last = InitCall
    /\ started = 0
    /\ \E agent \in Agents : auth = [InitAuth EXCEPT !.agent = agent]
    /\ sql = InitSql
    /\ now = 0

NextAuth ==
    \/ \E password \in AuthPasswords, randomSalt \in Salts :
           AuthCreateLogin(password, randomSalt)
    \/ \E passwordAttempt \in Attempts : AuthCheckLogin(passwordAttempt)

SpecAuth == InitAgent /\ [][NextAuth]_vars

-----------------------------------------------------------------------------
(* The SQL text the operations build (src/ts/util/sql-construction.ts).    *)
(* A text is a sequence of units: a unit is one character of a key or a    *)
(* value, or of what the escaping agent puts around it, or a piece of the  *)
(* statement template (a string of more than one character).  A descriptor *)
(* is the sequence of its key/value pairs in Object.keys order.            *)

\* longest key, longest string value and most keys of a descriptor
MaxKeyLen == 2

MaxValLen == 2

MaxKeys == 2

\* the backtick character
Backtick == "<backtick>"

Quote == "'"

DoubleQuote == "\""

Backslash == "\\"

KeyChars == {"a", Backtick, "."}

ValueChars == {"a", Quote, Backslash}

Strings(chars, n) == UNION {[1..k -> chars] : k \in 0..n}

StringValue(chars) == [type |-> "string", chars |-> chars, n |-> 0]

NumberValue(n) == [type |-> "number", chars |-> <<>>, n |-> n]

Values ==
    {StringValue(chars) : chars \in Strings(ValueChars, MaxValLen)}
        \cup {NumberValue(1)}

Pairs == [key : Strings(KeyChars, MaxKeyLen), value : Values]

DescriptorsOf(pairs, n) ==
    {obj \in UNION {[1..k -> pairs] : k \in 0..n} :
        \A i, j \in DOMAIN obj : obj[i].key = obj[j].key => i = j}

Descriptors == DescriptorsOf(Pairs, MaxKeys)

\* the updated-fields descriptors of the statement texts
UpdatedDescriptors ==
    {<<>>,
     <<[key |-> <<"a", Backtick>>, value |-> StringValue(<<"a", Quote>>)]>>,
     <<[key |-> <<".">>, value |-> StringValue(<<Backslash>>)]>>}

RECURSIVE Flatten(_)
Flatten(parts) ==
    IF parts = <<>> THEN <<>> ELSE Head(parts) \o Flatten(Tail(parts))

\* Array.prototype.join
RECURSIVE Join(_, _)
Join(parts, separator) ==
    IF parts = <<>> THEN <<>>
    ELSE IF Len(parts) = 1 THEN Head(parts)
    ELSE Head(parts) \o separator \o Join(Tail(parts), separator)

\* the escaping agent is the driver's pool. escapeId wraps the name in
\* backticks, doubles a backtick and puts a dot between two backticks
escapeId(value) ==
    <<Backtick>> \o Flatten([i \in DOMAIN value |->
                 IF value[i] = Backtick THEN <<Backtick, Backtick>>
                 ELSE IF value[i] = "." THEN <<Backtick, ".", Backtick>>
                 ELSE <<value[i]>>]) \o <<Backtick>>

DecimalDigits == <<"0", "1", "2", "3", "4", "5", "6", "7", "8", "9">>

\* escape writes a number in decimal, and a string between single quotes
\* with a backslash before each quote and backslash
escape(value) ==
    IF value.type = "number" THEN <<DecimalDigits[value.n + 1]>>
    ELSE <<Quote>> \o Flatten([i \in DOMAIN value.chars |->
                      IF value.chars[i] \in {Quote, DoubleQuote, Backslash}
                      THEN <<Backslash, value.chars[i]>>
                      ELSE <<value.chars[i]>>]) \o <<Quote>>

KeyEqualsValue(obj) ==
    [i \in DOMAIN obj |->
        escapeId(obj[i].key) \o <<" = ">> \o escape(obj[i].value)]

\* a clause that puts each value between quotes as it is
generateWhereClauseUnescaped(obj, includeWhereStatement) ==
    (IF includeWhereStatement THEN <<"WHERE ">> ELSE <<>>)
        \o Join([i \in DOMAIN obj |->
                    escapeId(obj[i].key) \o <<" = ">> \o
                    (IF obj[i].value.type = "number" THEN escape(obj[i].value)
                     ELSE <<Quote>> \o obj[i].value.chars \o <<Quote>>)],
                <<" AND ">>)

generateWhereClauseForObject(obj, includeWhereStatement) ==
    (IF includeWhereStatement THEN <<"WHERE ">> ELSE <<>>)
        \o Join(KeyEqualsValue(obj), <<" AND ">>)

\* a SET clause whose terms are joined as those of a WHERE clause
generateSetClauseJoinedByAnd(obj, includeSetStatement) ==
    (IF includeSetStatement THEN <<"SET ">> ELSE <<>>)
        \o Join(KeyEqualsValue(obj), <<" AND ">>)

generateSetClauseForObject(obj, includeSetStatement) ==
    (IF includeSetStatement THEN <<"SET ">> ELSE <<>>)
        \o Join(KeyEqualsValue(obj), <<", ">>)

\* the escaped name of the users table
UsersTableId == "users"

\* the statement getUser sends
getUserText(userInfo) ==
    <<"SELECT * FROM ", UsersTableId, " ">>
        \o generateWhereClauseForObject(userInfo, TRUE) \o <<" LIMIT 1">>

\* the statement createUser sends
createUserText(fullUser) ==
    <<"INSERT IGNORE INTO ", UsersTableId, " SET ">>
        \o generateSetClauseForObject(fullUser, FALSE)

UpdateScriptHead ==
    <<"SELECT @@autocommit INTO @storedAutocommitState; ",
      "SET autocommit = FALSE; ", "START TRANSACTION; ",
      "DROP TABLE IF EXISTS updatedUserIDs; ",
      "CREATE TEMPORARY TABLE IF NOT EXISTS updatedUserIDs(id INT); ",
      "TRUNCATE TABLE updatedUserIDs; ",
      "INSERT INTO updatedUserIDs SELECT id FROM ", UsersTableId, " WHERE ">>

UpdateScriptMiddle ==
    <<"; UPDATE ", UsersTableId,
      " RIGHT OUTER JOIN updatedUserIDs ON users.id = updatedUserIDs.id SET ">>

UpdateScriptTail ==
    <<"; SELECT * FROM ", UsersTableId,
      " RIGHT OUTER JOIN updatedUserIDs ON users.id = updatedUserIDs.id; ",
      "COMMIT; ", "SET autocommit = @storedAutocommitState;">>

\* the script updateUsers sends
updateUsersText(identifyingInfo, updatedInfo) ==
    UpdateScriptHead
        \o generateWhereClauseForObject(identifyingInfo, FALSE)
        \o UpdateScriptMiddle
        \o generateSetClauseForObject(updatedInfo, FALSE)
        \o UpdateScriptTail

\* The server's reading of a text: a backtick opens a quoted identifier,
\* in which two backticks stand for one and which a dot and another quoted
\* identifier continue; a single quote opens a string, in which a backslash
\* takes the next character as it is and two quotes stand for one; a digit
\* is a number; a piece of the template is read as written; any other
\* character is read as SQL.
Characters ==
    KeyChars \cup ValueChars \cup {Backtick, Quote, DoubleQuote, Backslash}
        \cup {DecimalDigits[i] : i \in DOMAIN DecimalDigits}

Token(kind, chars) == [kind |-> kind, chars |-> chars]

RECURSIVE ReadQuoted(_, _, _, _)
ReadQuoted(text, i, quote, chars) ==
    IF i > Len(text)
    THEN [closed |-> FALSE, chars |-> chars, next |-> i]
    ELSE IF quote = Quote /\ text[i] = Backslash
    THEN IF i + 1 > Len(text)
         THEN [closed |-> FALSE, chars |-> chars, next |-> i + 1]
         ELSE ReadQuoted(text, i + 2, quote, Append(chars, text[i + 1]))
    ELSE IF text[i] = quote
    THEN IF i + 1 <= Len(text) /\ text[i + 1] = quote
         THEN ReadQuoted(text, i + 2, quote, Append(chars, quote))
         ELSE [closed |-> TRUE, chars |-> chars, next |-> i + 1]
    ELSE ReadQuoted(text, i + 1, quote, Append(chars, text[i]))

RECURSIVE ReadIdentifier(_, _, _)
ReadIdentifier(text, i, chars) ==
    LET part == ReadQuoted(text, i, Backtick, chars)
    IN  IF /\ part.closed
           /\ part.next + 1 <= Len(text)
           /\ text[part.next] = "."
           /\ text[part.next + 1] = Backtick
        THEN ReadIdentifier(text, part.next + 2, Append(part.chars, "."))
        ELSE part

RECURSIVE Lex(_, _)
Lex(text, i) ==
    IF i > Len(text) THEN <<>>
    ELSE IF text[i] \in {Backtick, Quote}
    THEN LET read == IF text[i] = Backtick
                     THEN ReadIdentifier(text, i + 1, <<>>)
                     ELSE ReadQuoted(text, i + 1, Quote, <<>>)
             kind == IF text[i] = Backtick THEN "identifier" ELSE "string"
         IN  IF read.closed
             THEN <<Token(kind, read.chars)>> \o Lex(text, read.next)
             ELSE <<Token("unterminated", read.chars)>>
    ELSE IF text[i] \notin Characters
    THEN <<Token("template", <<text[i]>>)>> \o Lex(text, i + 1)
    ELSE IF \E d \in DOMAIN DecimalDigits : DecimalDigits[d] = text[i]
    THEN <<Token("number", <<text[i]>>)>> \o Lex(text, i + 1)
    ELSE <<Token("sql", <<text[i]>>)>> \o Lex(text, i + 1)

\* what a text that carries the descriptor as data reads as
ValueToken(value) ==
    IF value.type = "number"
    THEN Token("number", <<DecimalDigits[value.n + 1]>>)
    ELSE Token("string", value.chars)

ClauseTokens(obj, separator) ==
    Join([i \in DOMAIN obj |->
             <<Token("identifier", obj[i].key), Token("template", <<" = ">>),
               ValueToken(obj[i].value)>>],
         <<Token("template", <<separator>>)>>)

TemplateTokens(units) == [i \in DOMAIN units |-> Token("template", <<units[i]>>)]

ExpectedTokens(kind, obj, upd, keyword) ==
    CASE kind = "where" ->
           (IF keyword THEN TemplateTokens(<<"WHERE ">>) ELSE <<>>)
               \o ClauseTokens(obj, " AND ")
      [] kind = "set" ->
           (IF keyword THEN TemplateTokens(<<"SET ">>) ELSE <<>>)
               \o ClauseTokens(obj, ", ")
      [] kind = "getUser" ->
           TemplateTokens(<<"SELECT * FROM ", UsersTableId, " ", "WHERE ">>)
               \o ClauseTokens(obj, " AND ")
               \o TemplateTokens(<<" LIMIT 1">>)
      [] kind = "createUser" ->
           TemplateTokens(<<"INSERT IGNORE INTO ", UsersTableId, " SET ">>)
               \o ClauseTokens(obj, ", ")
      [] kind = "updateUsers" ->
           TemplateTokens(UpdateScriptHead)
               \o ClauseTokens(obj, " AND ")
               \o TemplateTokens(UpdateScriptMiddle)
               \o ClauseTokens(upd, ", ")
               \o TemplateTokens(UpdateScriptTail)

\* the record of one call of a builder, or of one statement text, on the
\* descriptors drawn
Built(kind, keyword, text) ==
    [sql EXCEPT !.kind = kind, !.keyword = keyword, !.outcome = "returned",
                !.text = text]

BuildWhere(includeWhereStatement) ==
    /\ sql.kind = "input"
    /\ sql' = Built("where", includeWhereStatement,
                    generateWhereClauseForObject(sql.obj,
                                                 includeWhereStatement))
    /\ UNCHANGED <<users, nextId, conns, poolAll, poolFree, calls, last,
                   started, auth, now>>

BuildSet(includeSetStatement) ==
    /\ sql.kind = "input"
    /\ sql' = Built("set", includeSetStatement,
                    generateSetClauseForObject(sql.obj, includeSetStatement))
    /\ UNCHANGED <<users, nextId, conns, poolAll, poolFree, calls, last,
                   started, auth, now>>

BuildGetUser ==
    /\ sql.kind = "input"
    /\ sql' = Built("getUser", TRUE, getUserText(sql.obj))
    /\ UNCHANGED <<users, nextId, conns, poolAll, poolFree, calls, last,
                   started, auth, now>>

BuildCreateUser ==
    /\ sql.kind = "input"
    /\ sql' = Built("createUser", FALSE, createUserText(sql.obj))
    /\ UNCHANGED <<users, nextId, conns, poolAll, poolFree, calls, last,
                   started, auth, now>>

BuildUpdateUsers ==
    /\ sql.kind = "input"
    /\ sql' = Built("updateUsers", FALSE, updateUsersText(sql.obj, sql.upd))
    /\ UNCHANGED <<users, nextId, conns, poolAll, poolFree, calls, last,
                   started, auth, now>>

InitBuilder ==
    /\ users = EmptyTable
    /\ nextId = 1
    /\ conns = [c \in ConnIds |-> InitConn]
    /\ poolAll = 0
    /\ poolFree = <<>>
    /\ calls = [p \in Callers |-> InitCall]
    /\ last = InitCall
    /\ started = 0
    /\ auth = InitAuth
    /\ now = 0
    /\ \E obj \in Descriptors, upd \in UpdatedDescriptors :
           sql = [InitSql EXCEPT !.kind = "input", !.obj = obj, !.upd = upd]

NextSql ==
    \/ \E includeWhereStatement \in BOOLEAN : BuildWhere(includeWhereStatement)
    \/ \E includeSetStatement \in BOOLEAN : BuildSet(includeSetStatement)
    \/ BuildGetUser
    \/ BuildCreateUser
    \/ BuildUpdateUsers

SpecSql == InitBuilder /\ [][NextSql]_vars

-----------------------------------------------------------------------------
(* Claims about the data-access operations, checked under Spec.            *)

UpdateResolved == last.op = "updateUsers" /\ last.outcome = "resolved"

UpdateRejected == last.op = "updateUsers" /\ last.outcome = "rejected"

\* C1: a successful updateUsers returns exactly the rows that matched the
\* identifying descriptor before its UPDATE was applied, each in its
\* post-update state, whatever the update does to the columns the descriptor
\* tests.
C1_UpdateReturnsRowsMatchedBefore ==
    UpdateResolved => last.rows = last.expected

\* C1 witness: an update that resolved with rows none of which matches the
\* identifying descriptor any more.
C1_Witness ==
    /\ UpdateResolved
    /\ last.rows # {}
    /\ \A row \in last.rows : ~Matches(row, last.ident)

\* C2: when a step of updateUsers fails the transaction is rolled back: the
\* users table reads as it did before the call, no part of the update is
\* left behind.
C2_RejectedUpdateLeavesNothing ==
    UpdateRejected => last.left = {}

\* a row whose three credential fields are set and whose passwordHash is the
\* KDF output of the password it was created with
CredentialsSet(row) ==
    /\ row.passwordSalt # ""
    /\ row.passwordIterations = auth.agent.hashingIterations
    /\ row.passwordHash = createHash(row.createdWith, row.passwordSalt,
                                     row.passwordIterations, auth.agent.pepper)

\* C3: every row of the users table, committed or pending in a session, has
\* its three credential fields set, with passwordHash the KDF output of the
\* password it was created with over its salt, the pepper and its iterations.
C3_CredentialsAlwaysSet ==
    /\ \A i \in DOMAIN users : CredentialsSet(users[i])
    /\ \A c \in ConnIds : \A i \in DOMAIN View(c) : CredentialsSet(View(c)[i])

\* C4: for a password that meets the conformity function, checkLogin on a
\* user carrying the material createLogin returned for it is true for that
\* password and false for every other attempt.
C4_CheckLoginAcceptsExactlyThePassword ==
    auth.verdict # "none" =>
        /\ checkPasswordConformity(auth.password)
        /\ auth.verdict = "true" <=> auth.attempt = auth.password

\* C4 witness: a login accepted for the password the material was made for,
\* by an agent with a non-empty pepper.
C4_Witness ==
    /\ auth.verdict = "true"
    /\ auth.attempt = auth.password
    /\ auth.agent.pepper # ""

\* C5: a createUser whose username is already in the users table fails with
\* USER_ALREADY_EXISTS and leaves the table as it was, with exactly one row
\* of that username.
C5_DuplicateCreateFails ==
    (last.op = "createUser" /\ last.dup) =>
        /\ last.outcome = "rejected"
        /\ last.error = "USER_ALREADY_EXISTS"
        /\ last.sameName = 1
        /\ last.left = {}

EmptyDescriptorCall ==
    /\ last.op = "updateUsers"
    /\ DOMAIN last.ident = {} \/ DOMAIN last.upd = {}

\* C6: updateUsers with an empty identifying or updated-fields descriptor
\* fails with EmptyDescriptorError without applying an update to users.
C6_EmptyDescriptorRejected ==
    EmptyDescriptorCall =>
        /\ last.outcome = "rejected"
        /\ last.error = "EmptyDescriptorError"
        /\ ~last.applied

\* C7: generateWhereClauseForObject and generateSetClauseForObject fail
\* with EmptyDescriptorError on a descriptor without keys, with or without
\* the keyword, and return no fragment for it.
C7_EmptyDescriptorFails ==
    (sql.kind \in {"where", "set"} /\ sql.obj = <<>>) =>
        /\ sql.outcome = "EmptyDescriptorError"
        /\ sql.text = <<>>

\* C8: a fragment built for a descriptor with a key, and each statement text
\* getUser, createUser and updateUsers send, reads as the template with each
\* key as one quoted identifier and each value as one literal of exactly the
\* characters given: each passed the escaping agent once, none is in the
\* text as it came.
C8_KeysAndValuesEscapedOnce ==
    (/\ sql.kind \in {"where", "set", "getUser", "createUser", "updateUsers"}
     /\ sql.obj # <<>>
     /\ sql.kind = "updateUsers" => sql.upd # <<>>) =>
        Lex(sql.text, 1) =
            ExpectedTokens(sql.kind, sql.obj, sql.upd, sql.keyword)

\* C8 witness: the updateUsers script for an identifying descriptor of two
\* keys, one with a backtick in its name and one with a quote in its value.
C8_Witness ==
    /\ sql.kind = "updateUsers"
    /\ Len(sql.obj) = MaxKeys
    /\ sql.upd # <<>>
    /\ \E i \in DOMAIN sql.obj :
           \E k \in DOMAIN sql.obj[i].key : sql.obj[i].key[k] = Backtick
    /\ \E i \in DOMAIN sql.obj :
           \E k \in DOMAIN sql.obj[i].value.chars :
               sql.obj[i].value.chars[k] = Quote

C10_CreateReturnsInsertedRow ==
    (/\ last.op = "createUser"
     /\ last.outcome = "resolved"
     /\ checkPasswordConformity(last.password)) =>
        \E row \in last.rows :
            /\ last.rows = {row}
            /\ row.id = last.insertId
            /\ Matches(row, last.userInfo)
            /\ CredentialsSet(row)
            /\ row.createdWith = last.password

\* C12: a password that fails the conformity function gets no login
\* material from createLogin, whatever salt is drawn, and createUser called
\* with it rejects with a weak-password error, not USER_ALREADY_EXISTS and
\* not success, leaving the users table as it was.
C12_WeakPasswordSurfaced ==
    (last.op = "createUser" /\ ~checkPasswordConformity(last.password)) =>
        /\ \A randomSalt \in Salts :
               createLogin(auth.agent, last.password, randomSalt) = NoLogin
        /\ last.outcome = "rejected"
        /\ last.error = "WeakPasswordError"
        /\ last.left = {}

\* C13: deleteAllUsers removes every row of the users table and resolves to
\* the number of rows it deleted: n for a table of n rows, 0 only for the
\* empty table.
C13_DeleteAllReturnsCount ==
    (last.op = "deleteAllUsers" /\ last.outcome = "resolved") =>
        last.count = Cardinality(last.matched)

-----------------------------------------------------------------------------
(* Claims about the shape of the clauses, checked under SpecSql.           *)

\* the term of one key: its escaped name, " = ", its escaped value
Term(pair) == escapeId(pair.key) \o <<" = ">> \o escape(pair.value)

\* the terms of the first n keys, in the descriptor's order, each followed
\* by the separator but the last
RECURSIVE TermsJoined(_, _, _)
TermsJoined(obj, n, separator) ==
    IF n = 0 THEN <<>>
    ELSE IF n = 1 THEN Term(obj[1])
    ELSE TermsJoined(obj, n - 1, separator) \o <<separator>> \o Term(obj[n])

\* how often a piece of the template is in a text
Occurrences(text, piece) ==
    Cardinality({i \in DOMAIN text : text[i] = piece})

\* C20: for a descriptor with at least one key, generateWhereClauseForObject
\* returns the terms escapeId(key) = escape(value) in the order of the keys,
\* joined by AND and with WHERE in front exactly when includeWhereStatement
\* is true; generateSetClauseForObject returns the same terms in the same
\* order joined by a comma, with SET in front exactly when
\* includeSetStatement is true; each key has exactly one term.
C20_ClauseIsTermsInOrder ==
    (sql.kind \in {"where", "set"} /\ sql.obj # <<>>) =>
        LET keyword == IF sql.kind = "where" THEN "WHERE " ELSE "SET "
            separator == IF sql.kind = "where" THEN " AND " ELSE ", "
            terms == TermsJoined(sql.obj, Len(sql.obj), separator)
        IN  /\ sql.outcome = "returned"
            /\ sql.text = IF sql.keyword THEN <<keyword>> \o terms ELSE terms
            /\ Occurrences(sql.text, keyword) = IF sql.keyword THEN 1 ELSE 0
            /\ Occurrences(sql.text, " = ") = Len(sql.obj)
            /\ Occurrences(sql.text, separator) = Len(sql.obj) - 1

\* C20 witness: a SET clause without the keyword for a descriptor of two
\* keys, and so with a separator between two terms.
C20_Witness ==
    /\ sql.kind = "set"
    /\ ~sql.keyword
    /\ sql.outcome = "returned"
    /\ Len(sql.obj) = MaxKeys

-----------------------------------------------------------------------------
(* Claims about errors, checked under Spec.                                *)

\* C18: when the driver reports an error for a statement of getUser,
\* getAllUsers, createUser, updateUsers or deleteAllUsers, the call rejects
\* with that very error: it does not resolve and the error is not replaced.
C18_DriverErrorRejects ==
    last.driverError # "" =>
        /\ last.outcome = "rejected"
        /\ last.error = last.driverError
        /\ last.rows = {}

\* C18 witness: a createUser whose INSERT the driver failed with a lock wait
\* timeout, after calls of other kinds had run.
C18_Witness ==
    /\ last.op = "createUser"
    /\ last.driverError = "ER_LOCK_WAIT_TIMEOUT"
    /\ last.outcome = "rejected"

-----------------------------------------------------------------------------
(* Claims about the steps of updateUsers, checked under Spec.              *)

\* C15: between the materialization of the working set (statement [6]) and
\* the end of the UPDATE (statement [7]) of an updateUsers call no other
\* call changes the working set: until the UPDATE the rows that match the
\* descriptor are the materialized ones, unchanged; after it exactly these
\* rows are written, each as the update makes it, and these are the rows
\* read back, whatever the other callers do.
C15_WorkingSetStable ==
    \A p \in Callers :
        LET call == calls[p]
            c == call.conn
            updated == UpdateJoined(call.pre, call.matched, call.upd)
        IN  /\ call.pc = "upd_update" =>
                   /\ conns[c].tempIds = call.matched
                   /\ Selected(View(c), call.ident) = call.matched
                   /\ \A i \in call.matched : View(c)[i] = call.pre[i]
            /\ call.pc \in {"upd_readback", "upd_commit"} =>
                   /\ conns[c].tempIds = call.matched
                   /\ Written(conns[c]) \subseteq call.matched
                   /\ \A i \in call.matched :
                          i \in DOMAIN View(c) /\ View(c)[i] = updated[i]
            /\ call.pc = "upd_commit" =>
                   call.rows = {updated[i] : i \in call.matched}

\* C15 witness: two updateUsers scripts are under way at once, one of them
\* past its UPDATE with a row written, the other between its
\* materialization and its UPDATE.
C15_Witness ==
    \E p, q \in Callers :
        /\ calls[p].pc = "upd_readback"
        /\ calls[p].matched # {}
        /\ calls[q].pc = "upd_update"
        /\ calls[q].matched # {}

\* the steps of the script of updateUsers, from one position of a call to
\* the next
UpdSteps ==
    {<<"idle", "upd_materialize">>, <<"upd_materialize", "upd_update">>,
     <<"upd_update", "upd_readback">>, <<"upd_readback", "upd_commit">>,
     <<"upd_commit", "idle">>}

\* the script stopped at a failing statement
UpdStops ==
    {<<"upd_materialize", "idle">>, <<"upd_update", "idle">>,
     <<"upd_readback", "idle">>}

\* what one step of caller p's updateUsers does, on the session it runs on
UpdStepInOrder(p) ==
    LET from == calls[p].pc
        to == calls'[p].pc
        c == IF from = "idle" THEN calls'[p].conn ELSE calls[p].conn
        tempIds == conns'[c].tempIds
        before == ViewOf(users, conns[c])
        after == ViewOf(users', conns'[c])
    IN  /\ calls'[p].op = "updateUsers" \/ calls[p].op = "updateUsers"
        /\ <<from, to>> \in UpdSteps \cup UpdStops
        /\ <<from, to>> = <<"idle", "upd_materialize">> =>
               /\ conns'[c].autocommit = 0
               /\ Written(conns'[c]) = {}
               /\ conns'[c].tempIds = {}
        /\ <<from, to>> = <<"upd_materialize", "upd_update">> =>
               /\ tempIds = Selected(before, calls[p].ident)
               /\ after = before
        /\ <<from, to>> = <<"upd_update", "upd_readback">> =>
               /\ tempIds = conns[c].tempIds
               /\ DOMAIN after = DOMAIN before
               /\ \A i \in DOMAIN before :
                      after[i] = IF i \in tempIds
                                    THEN SetRow(before[i], calls[p].upd)
                                    ELSE before[i]
               /\ users' = users
        /\ <<from, to>> = <<"upd_readback", "upd_commit">> =>
               /\ tempIds = conns[c].tempIds
               /\ after = before
               /\ {row.id : row \in calls'[p].rows} = tempIds
               /\ \A row \in calls'[p].rows :
                      row.id \in DOMAIN before => row = before[row.id]
        /\ <<from, to>> = <<"upd_commit", "idle">> =>
               /\ users' = before
               /\ Written(conns'[c]) = {}
               /\ last'.outcome = "resolved"
               /\ last'.rows = calls[p].rows

\* C16: the statements of one updateUsers run in the order transaction
\* opened, working set materialized, UPDATE, read-back, COMMIT, with no
\* step skipped or repeated; the UPDATE sets exactly the rows whose id is in
\* the working set and the read-back returns exactly the rows of the working
\* set, whether or not they still match the identifying descriptor.
C16_StepsInOrder ==
    [][\A p \in Callers :
          (calls'[p].pc # calls[p].pc
              /\ (calls[p].op = "updateUsers" \/ calls'[p].op = "updateUsers"))
          => UpdStepInOrder(p)]_vars

\* C16 witness: a script that has read back its rows and is about to
\* commit, none of the rows matching its identifying descriptor any more.
C16_Witness ==
    \E p \in Callers :
        /\ calls[p].pc = "upd_commit"
        /\ calls[p].rows # {}
        /\ \A row \in calls[p].rows : ~Matches(row, calls[p].ident)

\* C17: every operation is one atomic unit that ends committed or rolled
\* back, never in flight: a connection no call is running on has no
\* transaction open, holds no locks and no writes waiting for a commit, and
\* a call that rejected left nothing of its effect behind.
C17_OperationsEndCommittedOrRolledBack ==
    /\ \A c \in ConnIds :
           ~Busy(c) => /\ Written(conns[c]) = {}
                       /\ conns[c].lock = "none"
                       /\ conns[c].autocommit = 1
    /\ last.outcome = "rejected" => last.left = {}

-----------------------------------------------------------------------------
(* Claims about calls made one after another, checked under                *)
(* SpecSequential.                                                         *)

\* C11: when createUser has returned a user and the next call is getUser by
\* that user's id, getUser returns one record of that id whose passwordHash,
\* passwordSalt and passwordIterations checkLogin accepts for the password
\* createUser was given, and whose createdAt equals its modifiedAt.
C11_CreateThenGetUserRoundTrip ==
    [][\A created \in last.rows :
          (/\ last.op = "createUser"
           /\ last.outcome = "resolved"
           /\ last'.op = "getUser"
           /\ last'.ident = [id |-> created.id]) =>
              /\ last'.outcome = "resolved"
              /\ \E row \in last'.rows :
                    /\ last'.rows = {row}
                    /\ row.id = created.id
                    /\ checkLogin(auth.agent, row, last.password)
                    /\ row.createdAt = row.modifiedAt]_vars

\* C14: deleteUsers resolves to the number of rows matching the descriptor,
\* which it deleted, and deleteUser resolves to true exactly when a row
\* matching the descriptor was found and deleted; the rows reported as
\* deleted are not in the users table after the call.
C14_DeletesReportWhatTheyDeleted ==
    /\ (last.op = "deleteUsers" /\ last.outcome = "resolved") =>
           /\ last.returned = {Cardinality(last.matched)}
           /\ last.matched \cap DOMAIN users = {}
    /\ (last.op = "deleteUser" /\ last.outcome = "resolved") =>
           /\ last.returned = {last.matched # {}}
           /\ last.matched # {} => last.matched \ DOMAIN users # {}

-----------------------------------------------------------------------------
(* Claims about what updateUsers leaves on its connection and in its       *)
(* working set, checked under Spec.                                        *)

\* the connection the call in `last` gave back to the pool: the pool queues
\* a released connection behind the free ones
Released == poolFree[Len(poolFree)]

\* C24: after an updateUsers call, resolved or rejected at whatever
\* statement, the connection it ran on is as it was before the call:
\* autocommit has the value the script saved and no transaction is open on
\* it, no write waiting for a commit and no lock held.
C24_ConnectionRestoredAfterUpdate ==
    last.op = "updateUsers" =>
        /\ conns[Released].autocommit = conns[Released].stored
        /\ Written(conns[Released]) = {}
        /\ conns[Released].lock = "none"

\* C25: when an updateUsers call applies its UPDATE, updatedUserIDs on its
\* session holds exactly the ids its own identifying descriptor selected,
\* none left by an earlier call on the same connection, failed or not; it
\* is empty until the call's own INSERT, and two calls under way at once
\* run on different connections, each with its own updatedUserIDs.
C25_WorkingSetIsTheCallsOwn ==
    \A p \in Callers :
        LET call == calls[p]
        IN  /\ call.pc = "upd_materialize" => conns[call.conn].tempIds = {}
            /\ call.pc = "upd_update" =>
                   conns[call.conn].tempIds = Selected(call.pre, call.ident)
            /\ \A q \in Callers \ {p} :
                   call.conn # 0 => calls[q].conn # call.conn

\* C25 witness: two calls are about to apply their UPDATE, each on its own
\* connection, with different working sets, while one of the connections
\* was given back by an earlier call with its autocommit setting changed.
C25_Witness ==
    \E p, q \in Callers :
        /\ calls[p].pc = "upd_update"
        /\ calls[q].pc = "upd_update"
        /\ conns[calls[p].conn].tempIds # {}
        /\ conns[calls[p].conn].tempIds # conns[calls[q].conn].tempIds
        /\ conns[calls[p].conn].stored = 0

\* C23: what updateUsers returns is the row set of the read-back SELECT,
\* the 9th statement of its script (index 8 of the results), and not the
\* result of the working-set INSERT, the UPDATE, the COMMIT or a statement
\* of the autocommit bookkeeping.
C23_UpdateReturnsReadBack ==
    UpdateResolved =>
        /\ last.from = [index |-> 8, kind |-> "rows"]
        /\ \A row \in last.rows : row.id \in last.matched
        /\ {row.id : row \in last.rows} = last.matched

\* C23 witness: an updateUsers whose descriptor selected no row resolved to
\* the empty row set of the read-back.
C23_Witness ==
    /\ UpdateResolved
    /\ last.from.kind = "rows"
    /\ last.matched = {}
    /\ last.rows = {}

-----------------------------------------------------------------------------
(* Claims about what createUser writes.                                    *)

CredentialKeys == {"passwordHash", "passwordSalt", "passwordIterations"}

\* C22: the pepper is not persisted and not returned: the columns the
\* INSERT of createUser writes are exactly the keys of userInfo and
\* passwordHash, passwordSalt and passwordIterations, no column is named
\* pepper or holds the pepper, and the material createLogin returns holds
\* the salt, not the pepper.  (passwordHash is a digest over salt and
\* pepper; a digest is not compared with the pepper here.)
C22_PepperNotPersisted ==
    last.op = "createUser" =>
        /\ DOMAIN last.sent = DOMAIN last.userInfo \cup CredentialKeys
        /\ "pepper" \notin DOMAIN last.sent
        /\ \A k \in DOMAIN last.sent \cap {"username", "phone", "passwordSalt"} :
               last.sent[k] # auth.agent.pepper
        /\ \A randomSalt \in Salts :
               createLogin(auth.agent, last.password, randomSalt).passwordSalt
                   # auth.agent.pepper

\* C26: the passwordHash, passwordSalt and passwordIterations of the row
\* createUser inserts are those the agent made for the password; a key of
\* one of these names in userInfo never replaces the agent's value.
C26_CredentialsAreTheAgents ==
    (last.op = "createUser" /\ last.outcome = "resolved") =>
        \A row \in last.rows :
            /\ \E randomSalt \in DbSalts :
                  LET login == createLogin(auth.agent, last.password,
                                           randomSalt)
                  IN  /\ login.defined
                      /\ \A k \in CredentialKeys : row[k] = login[k]
            /\ \A k \in CredentialKeys \cap DOMAIN last.userInfo :
                  row[k] # last.userInfo[k]

\* C21: when crypto.pbkdf2 fails, createHash rejects with its hashing
\* failure and resolves to no string, empty or partial: a createUser whose
\* hashing fails rejects with that failure without sending an INSERT, the
\* users table, the id counter and the sessions staying as they were, and a
\* checkLogin whose hashing fails rejects and does not resolve to true.
C21_HashingFailureRejects ==
    [][last'.cryptoError =>
          /\ last'.outcome = "rejected"
          /\ last'.error = HashingFailure
          /\ last'.returned = {}
          /\ last'.sent = EmptyObject
          /\ users' = users /\ nextId' = nextId /\ conns' = conns]_vars

\* C21 witness: a checkLogin rejected with the hashing failure for a user
\* whose stored passwordHash is the empty string.
C21_Witness ==
    /\ last.op = "checkLogin"
    /\ last.cryptoError
    /\ last.outcome = "rejected"
    /\ \E user \in last.rows : user.passwordHash = NoHash

====
